---- MODULE Spec2Model ----
(***************************************************************************)
(* A model of `jx get build log` on the Prow path                          *)
(* (pkg/jx/cmd/get_build_logs.go): the catalog loaders loadBuilds and      *)
(* loadPipelines, the resolution of an identifier in getProwBuildLog, the  *)
(* walk over stages and init containers, and waitForInitContainerToStart.  *)
(*                                                                         *)
(* Go indices are 0-based; the model's sequences are 1-based, so the       *)
(* code's `i > 0` reads `i > 1` here and `icStatuses[i-1]` stays the       *)
(* status just before position i.                                          *)
(***************************************************************************)
EXTENDS Integers, Sequences, FiniteSets, TLC

VARIABLES
    tektonEnabled,  \* kube.IsTektonEnabled: pipeline runs (TRUE) or legacy build pods
    o,              \* GetBuildLogsOptions: Args, Wait, BatchMode, BuildFilter
    cluster,        \* the build pods / PipelineRuns the cluster lists in the namespace
    catalog,        \* names, defaultName, buildMap, pipelineMap of getProwBuildLog
    loads,          \* calls of loadBuilds / loadPipelines made to resolve the name
    pickedPipeline, \* local of getProwBuildLog
    name,           \* args[0]
    build,          \* the resolved descriptor, Nil while there is none
    suffix,         \* " #<build>" when resolved through pipelineMap
    pc,             \* position of the command
    err,            \* the error the command returned (NoErr: none)
    elapsed,        \* ticks slept inside the running util.Retry
    retryErr,       \* error of the last call of f that failed inside that util.Retry
    nStages,        \* len(pr.GetOrderedTaskStages())
    stageIdx,       \* position of the stage being walked
    stages,         \* number of init containers of each stage entered so far
    prevFailed,     \* the last init container of the stage before exited non-zero
    i,              \* position of the init container being visited
    live,           \* status of the current stage's pod in the cluster
    snap,           \* the pod waitForInitContainerToStart returned for the container
    polled,         \* the running waitForInitContainerToStart has read the pod
    events          \* what the command did, in order: podwait, warn, wait, stream, ret

vars == <<tektonEnabled, o, cluster, catalog, loads, pickedPipeline, name, build,
          suffix, pc, err, elapsed, retryErr, nStages, prevFailed, stageIdx, stages, i,
          live, snap, polled, events>>

(***************************************************************************)
(* Bounds                                                                  *)
(***************************************************************************)
MaxBuild == 2        \* build numbers 1..MaxBuild
MaxUnits == 3        \* init containers of a build, over all its stages
RetryTicks == 2      \* WaitForPipelineDuration, in sleeps of util.Retry

(***************************************************************************)
(* Values                                                                  *)
(***************************************************************************)
Nil == [nil |-> TRUE]
NoErr == [kind |-> "nil"]
Error(k) == [kind |-> k]
StageError(k, s) == [kind |-> k, stage |-> s]
ErrorAt(k, call) == [kind |-> k, at |-> call]

Pipelines == {"jx/app/PR-1", "jx/app/master"}
RunPipelines == {"jx/app/master"}

\* The branch is the last segment of the pipeline name (owner/repo/branch).
BranchOf(p) == IF p = "jx/app/master" THEN "master" ELSE "PR-1"

\* Position of a pipeline name in string order ("P" sorts before "m").
NameRank(p) == IF p = "jx/app/PR-1" THEN 1 ELSE 2

Builds == 1..MaxBuild

\* What the cluster holds for one (pipeline, build): a legacy build pod with or
\* without init containers, or a PipelineRun whose PipelineRunInfo can be
\* created, comes back nil, or fails to be created.
ObjectStates(t) == IF t THEN {"ok", "nil", "err"} ELSE {"pod", "noinit"}

Object(p, n, s) == [pipeline |-> p, build |-> n, branch |-> BranchOf(p), state |-> s]

Keys(P) == P \X Builds

Clusters(t, P) ==
    { { Object(k[1], k[2], f[k]) : k \in {q \in Keys(P) : f[q] # "absent"} } :
        f \in [Keys(P) -> ObjectStates(t) \cup {"absent"}] }

Filters == [Branch : {"", "master", "PR-1"}]

\* On the pipelines of RunPipelines the filter "master" accepts what "" accepts.
RunFilters == [Branch : {"", "PR-1"}]

(***************************************************************************)
(* Maps (Go maps keyed by string): sets of entries with distinct keys      *)
(***************************************************************************)
MapKeys(m) == {e.k : e \in m}
MapGet(m, k) == IF k \in MapKeys(m) THEN (CHOOSE e \in m : e.k = k).v ELSE Nil
MapPut(m, k, v) == {e \in m : e.k # k} \cup {[k |-> k, v |-> v]}

(***************************************************************************)
(* Catalog loading                                                         *)
(***************************************************************************)
\* build.Pipeline + " #" + build.Build
DisplayName(b) == b.pipeline \o " #" \o ToString(b.build)

\* " #" + build.GetBuild()
BuildSuffix(b) == " #" \o ToString(b.build)

\* builds.BuildPodInfoFilter.BuildMatches, on the branch field (the other
\* fields of the filter are left empty).
BuildMatches(filter, b) == filter.Branch = "" \/ filter.Branch = b.branch

\* BuildPodInfo.Pod: the build pod the descriptor was made of, with whether it
\* has init containers. A PipelineRunInfo has no such field.
PodOf(obj) ==
    IF obj.state \in {"pod", "noinit"} THEN [inits |-> obj.state = "pod"] ELSE Nil

\* The descriptor made of a cluster object.
Info(obj) ==
    [pipeline |-> obj.pipeline, build |-> obj.build, branch |-> obj.branch,
     pod |-> PodOf(obj)]

\* Sort order of the descriptors: newest build first, ties broken by pipeline name.
Before(x, y) ==
    \/ x.build > y.build
    \/ x.build = y.build /\ NameRank(x.pipeline) < NameRank(y.pipeline)

RECURSIVE SortInfos(_)
SortInfos(S) ==
    IF S = {} THEN <<>>
    ELSE LET first == CHOOSE x \in S : \A y \in S \ {x} : Before(x, y)
         IN <<first>> \o SortInfos(S \ {first})

EmptyCatalog == [names |-> <<>>, defaultName |-> "", buildMap |-> {}, pipelineMap |-> {}]

\* NewCatalog going on from what the previous load returned.
KeptCatalog == catalog

\* `defaultName := ""; names := []string{}; buildMap := map...{}; pipelineMap := map...{}`
NewCatalog == [names |-> <<>>, defaultName |-> "", buildMap |-> {}, pipelineMap |-> {}]

\* One pass of `for _, build := range buildInfos`.
IndexStep(acc, b) ==
    LET n == DisplayName(b)
    IN [names |-> Append(acc.names, n),
        buildMap |-> MapPut(acc.buildMap, n, b),
        pipelineMap |-> MapPut(acc.pipelineMap, b.pipeline, b),
        defaultName |-> IF b.branch = "master" THEN n ELSE acc.defaultName]

RECURSIVE IndexFrom(_, _, _)
IndexFrom(infos, k, acc) ==
    IF k > Len(infos) THEN acc
    ELSE IndexFrom(infos, k + 1, IndexStep(acc, infos[k]))

IndexInfos(infos) == IndexFrom(infos, 1, NewCatalog)

\* BuildInfos without the test `len(initContainers) > 0`.
BuildInfosAnyPod(filter, pods) ==
    { Info(p) : p \in {q \in pods : BuildMatches(filter, Info(q))} }

\* The descriptors loadBuilds keeps: pods with init containers that the filter accepts.
BuildInfos(filter, pods) ==
    { Info(p) : p \in {q \in pods : q.state # "noinit" /\ BuildMatches(filter, Info(q))} }

\* The descriptors loadPipelines keeps: every non-nil PipelineRunInfo.
PipelineRunInfos(prs) == { Info(p) : p \in {q \in prs : q.state # "nil"} }

loadBuilds(filter, pods, listOk) ==
    IF ~listOk THEN [cat |-> NewCatalog, err |-> Error("QueryFailure")]
    ELSE LET infos == SortInfos(BuildInfos(filter, pods))
         IN IF Len(infos) = 0
            THEN [cat |-> NewCatalog, err |-> Error("EmptyCatalog")]
            ELSE [cat |-> IndexInfos(infos), err |-> NoErr]

loadPipelines(prs, listOk) ==
    IF ~listOk THEN [cat |-> NewCatalog, err |-> Error("QueryFailure")]
    ELSE IF \E p \in prs : p.state = "err"
    THEN [cat |-> NewCatalog, err |-> ErrorAt("QueryFailure", "CreatePipelineRunInfo")]
    ELSE LET infos == SortInfos(PipelineRunInfos(prs))
         IN IF Len(infos) = 0
            THEN [cat |-> NewCatalog, err |-> Error("EmptyCatalog")]
            ELSE [cat |-> IndexInfos(infos), err |-> NoErr]

\* `if tektonEnabled { loadPipelines } else { loadBuilds }`
Load(t, filter, objs, listOk) ==
    IF t THEN loadPipelines(objs, listOk) ELSE loadBuilds(filter, objs, listOk)

\* The descriptors a successful load of the cluster is about.
Loaded(t, filter, objs) ==
    IF t THEN PipelineRunInfos(objs) ELSE BuildInfos(filter, objs)

(***************************************************************************)
(* The loaders alone: one load of an arbitrary cluster                     *)
(***************************************************************************)
NoPod == [phase |-> "Pending", reported |-> FALSE, cur |-> 1, cstate |-> "waiting"]

Idle ==
    /\ pickedPipeline = FALSE /\ name = "" /\ build = Nil /\ suffix = ""
    /\ loads = 0 /\ elapsed = 0 /\ retryErr = NoErr
    /\ nStages = 0 /\ stageIdx = 0 /\ prevFailed = FALSE
    /\ stages = <<>> /\ i = 0 /\ live = NoPod /\ snap = NoPod
    /\ polled = FALSE /\ events = <<>>

LoadInit ==
    /\ tektonEnabled \in BOOLEAN
    /\ o \in [Args : {<<>>}, Wait : {FALSE}, BatchMode : {FALSE}, BuildFilter : Filters]
    /\ cluster \in Clusters(tektonEnabled, Pipelines)
    /\ catalog = EmptyCatalog
    /\ pc = "load"
    /\ err = NoErr
    /\ Idle

LoadCatalog ==
    /\ pc = "load"
    /\ \E listOk \in BOOLEAN :
         LET r == Load(tektonEnabled, o.BuildFilter, cluster, listOk)
         IN /\ catalog' = r.cat
            /\ err' = r.err
    /\ loads' = loads + 1
    /\ pc' = "loaded"
    /\ UNCHANGED <<tektonEnabled, o, cluster, pickedPipeline, name, build, suffix,
                   elapsed, retryErr, nStages, prevFailed, stageIdx, stages, i, live, snap,
                   polled, events>>

\* A second load of the same cluster.
LoadAgain ==
    /\ pc = "loaded"
    /\ \E listOk \in BOOLEAN :
         LET r == Load(tektonEnabled, o.BuildFilter, cluster, listOk)
         IN /\ catalog' = r.cat
            /\ err' = r.err
    /\ loads' = loads + 1
    /\ pc' = "reloaded"
    /\ UNCHANGED <<tektonEnabled, o, cluster, pickedPipeline, name, build, suffix,
                   elapsed, retryErr, nStages, prevFailed, stageIdx, stages, i, live, snap,
                   polled, events>>

LoadNext == LoadCatalog \/ LoadAgain

LoadSpec == LoadInit /\ [][LoadNext]_vars

\* The descriptors of the loaded catalog, in sort order.
LoadedInfos == SortInfos(Loaded(tektonEnabled, o.BuildFilter, cluster))

LoadSucceeded == pc = "loaded" /\ err = NoErr

(***************************************************************************)
(* C5: after load, for every pipeline name the latest-per-pipeline index   *)
(* holds the descriptor with the greatest build number among the loaded    *)
(* descriptors of that pipeline.                                           *)
(***************************************************************************)
C5_LatestIndexHoldsNewest ==
    LoadSucceeded =>
        \A b \in Loaded(tektonEnabled, o.BuildFilter, cluster) :
            MapGet(catalog.pipelineMap, b.pipeline).build >= b.build

(***************************************************************************)
(* C6: defaultName is the display name of the first descriptor in sort     *)
(* order whose branch is "master", or empty when there is none.            *)
(***************************************************************************)
FirstMaster(infos) ==
    IF \E k \in 1..Len(infos) : infos[k].branch = "master"
    THEN DisplayName(infos[CHOOSE k \in 1..Len(infos) :
                               /\ infos[k].branch = "master"
                               /\ \A j \in 1..(k - 1) : infos[j].branch # "master"])
    ELSE ""

C6_DefaultNameIsFirstMaster ==
    LoadSucceeded => catalog.defaultName = FirstMaster(LoadedInfos)

(***************************************************************************)
(* Pods                                                                    *)
(*                                                                         *)
(* Init containers run one after the other and are never restarted: the    *)
(* containers before `cur` terminated with exit code 0, the container at   *)
(* `cur` is waiting, running or failed (terminated, non-zero exit code),   *)
(* the containers after it are waiting. Until the kubelet has reported,    *)
(* the pod's InitContainerStatuses is empty.                               *)
(***************************************************************************)
Phases == {"Pending", "Running", "Succeeded", "Failed"}

\* pod.Status.InitContainerStatuses[j] of a pod with n init containers
ContainerStatus(pod, j) ==
    [started |-> j < pod.cur \/ (j = pod.cur /\ pod.cstate # "waiting"),
     terminated |-> j < pod.cur \/ (j = pod.cur /\ pod.cstate = "failed"),
     exitCode |-> IF j = pod.cur /\ pod.cstate = "failed" THEN 1 ELSE 0]

InitContainerStatuses(pod, n) ==
    IF pod.reported THEN [j \in 1..n |-> ContainerStatus(pod, j)] ELSE <<>>

\* kube.HasInitContainerStarted(pod, idx)
HasInitContainerStarted(pod, n, idx) ==
    LET statuses == InitContainerStatuses(pod, n)
    IN idx <= Len(statuses) /\ statuses[idx].started

\* FailureCheck without the test of the exit code.
FailureCheckAnyExit(pod, n, idx) ==
    /\ idx > 1
    /\ LET icStatuses == InitContainerStatuses(pod, n)
       IN /\ idx <= Len(icStatuses)
          /\ icStatuses[idx - 1].terminated

\* The check of the previous container before waiting on container idx:
\* TRUE when the warning "container ... failed with exit code" is logged.
FailureCheck(pod, n, idx) ==
    /\ idx > 1
    /\ LET icStatuses == InitContainerStatuses(pod, n)
       IN /\ idx <= Len(icStatuses)
          /\ icStatuses[idx - 1].terminated
          /\ icStatuses[idx - 1].exitCode # 0

\* ReturnsAtOnce without the test of the pod's phase.
ReturnsAtOnceStartedOnly(pod, n, idx) == HasInitContainerStarted(pod, n, idx)

\* ReturnsAtOnce without any test.
ReturnsAtOnceAlways(pod, n, idx) == TRUE

\* The two early returns of waitForInitContainerToStart
ReturnsAtOnce(pod, n, idx) ==
    \/ pod.phase = "Failed"
    \/ HasInitContainerStarted(pod, n, idx)

\* NoInitContainers with `<` for `<=`.
NoInitContainersStrict(n) == n < 0

\* `if len(initContainers) <= 0 { return fmt.Errorf("No InitContainers ...") }`
NoInitContainers(n) == n <= 0

\* util.Retry(o.WaitForPipelineDuration, f) after a call of f: f succeeded,
\* f is called again after a sleep, or the time is up.
Retry(ok, ticks) ==
    IF ok THEN "ok" ELSE IF ticks >= RetryTicks THEN "timeout" ELSE "again"

(***************************************************************************)
(* Resolution of the identifier                                            *)
(***************************************************************************)
\* Lookup without the fallback to pipelineMap.
LookupExactOnly(cat, nm) == [build |-> MapGet(cat.buildMap, nm), suffix |-> ""]

\* Lookup never setting the suffix.
LookupNoSuffix(cat, nm) ==
    LET b == MapGet(cat.buildMap, nm)
    IN [build |-> IF b # Nil THEN b ELSE MapGet(cat.pipelineMap, nm), suffix |-> ""]

\* build := buildMap[name]; if build == nil { build = pipelineMap[name]; ... }
Lookup(cat, nm) ==
    LET b == MapGet(cat.buildMap, nm)
    IN IF b # Nil THEN [build |-> b, suffix |-> ""]
       ELSE LET p == MapGet(cat.pipelineMap, nm)
            IN [build |-> p, suffix |-> IF p # Nil THEN BuildSuffix(p) ELSE ""]

\* `if build == nil && !pickedPipeline && o.Wait`
EntersWait(b, picked, wait) == b = Nil /\ ~picked /\ wait

\* The names given on the command line: a display name, a bare pipeline name,
\* and a name no build has.
Identifiers == {"jx/app/master #1", "jx/app/master", "jx/app/none"}

\* --batch-mode is read only when no name is given.
Options ==
    [Args : {<<>>}, Wait : BOOLEAN, BatchMode : BOOLEAN, BuildFilter : RunFilters]
        \cup [Args : {<<id>> : id \in Identifiers}, Wait : BOOLEAN,
              BatchMode : {FALSE}, BuildFilter : RunFilters]

Init ==
    /\ tektonEnabled \in BOOLEAN
    /\ o \in Options
    /\ cluster \in Clusters(tektonEnabled, RunPipelines)
    /\ catalog = EmptyCatalog
    /\ pc = "start"
    /\ err = NoErr
    /\ Idle

Return(e) == pc' = "done" /\ err' = e

WalkVars == <<nStages, prevFailed, stageIdx, stages, i, live, snap, polled, events>>

\* NeedsArgument never failing for the missing name.
NeedsArgumentNever(opts) == FALSE

\* `if o.BatchMode { return util.MissingArgument("pipeline") }`, with no name given
NeedsArgument(opts) == opts.BatchMode

\* getProwBuildLog up to the lookup of the name: with no argument, the catalog
\* is loaded and the user picks a name; with one, nothing is loaded.
Begin ==
    /\ pc = "start"
    /\ UNCHANGED <<tektonEnabled, o, cluster, WalkVars>>
    /\ IF Len(o.Args) = 0
       THEN IF NeedsArgument(o)
            THEN /\ Return(Error("MissingArgument"))
                 /\ UNCHANGED <<catalog, loads, pickedPipeline, name, build, suffix,
                                elapsed, retryErr>>
            ELSE \E listOk \in BOOLEAN :
                   LET r == Load(tektonEnabled, o.BuildFilter, cluster, listOk)
                   IN IF r.err # NoErr
                      THEN /\ Return(r.err)
                           /\ catalog' = r.cat
                           /\ loads' = loads + 1
                           /\ UNCHANGED <<pickedPipeline, name, build, suffix, elapsed,
                                          retryErr>>
                      ELSE /\ catalog' = r.cat
                           /\ loads' = loads + 1
                           /\ pickedPipeline' = TRUE
                           /\ UNCHANGED <<elapsed, retryErr>>
                           /\ \/ \* util.PickNameWithDefault fails
                                 /\ Return(Error("PickFailed"))
                                 /\ UNCHANGED <<name, build, suffix>>
                              \/ \E k \in 1..Len(r.cat.names) :
                                   LET l == Lookup(r.cat, r.cat.names[k])
                                   IN /\ name' = r.cat.names[k]
                                      /\ build' = l.build
                                      /\ suffix' = l.suffix
                                      /\ IF l.build = Nil
                                         THEN Return(Error("NotFound"))
                                         ELSE pc' = "resolved" /\ UNCHANGED err
       ELSE LET l == Lookup(catalog, o.Args[1])
            IN /\ name' = o.Args[1]
               /\ build' = l.build
               /\ suffix' = l.suffix
               /\ UNCHANGED <<catalog, loads, pickedPipeline, elapsed, retryErr>>
               /\ IF EntersWait(l.build, pickedPipeline, o.Wait)
                  THEN pc' = "waitPipeline" /\ UNCHANGED err
                  ELSE IF l.build = Nil
                       THEN Return(Error("NotFound"))
                       ELSE pc' = "resolved" /\ UNCHANGED err

\* WaitLookup returning nil when the load fails.
WaitLookupSwallows(t, filter, objs, listOk, nm) ==
    LET r == Load(t, filter, objs, listOk)
        l == Lookup(r.cat, nm)
    IN [cat |-> r.cat, build |-> l.build, suffix |-> l.suffix, err |-> NoErr,
        ok |-> r.err # NoErr \/ l.build # Nil]

\* One call of the closure f of the pipeline wait: the result of the load and
\* of the lookup, and whether f returned nil.
WaitLookup(t, filter, objs, listOk, nm) ==
    LET r == Load(t, filter, objs, listOk)
        l == Lookup(r.cat, nm)
    IN [cat |-> r.cat,
        build |-> IF r.err = NoErr THEN l.build ELSE Nil,
        suffix |-> IF r.err = NoErr THEN l.suffix ELSE "",
        err |-> IF r.err # NoErr THEN r.err
                ELSE IF l.build = Nil THEN Error("NoPipelineYet") ELSE NoErr,
        ok |-> r.err = NoErr /\ l.build # Nil]

\* One attempt of util.Retry(o.WaitForPipelineDuration, f) for the pipeline.
WaitAttempt ==
    /\ pc = "waitPipeline"
    /\ UNCHANGED <<tektonEnabled, o, cluster, pickedPipeline, name, WalkVars>>
    /\ \E listOk \in BOOLEAN :
         LET f == WaitLookup(tektonEnabled, o.BuildFilter, cluster, listOk, name)
             next == Retry(f.ok, elapsed)
         IN /\ catalog' = f.cat
            /\ loads' = loads + 1
            /\ build' = f.build
            /\ suffix' = f.suffix
            /\ retryErr' = IF f.ok THEN retryErr ELSE f.err
            /\ IF next = "ok"
               THEN pc' = "resolved" /\ UNCHANGED <<err, elapsed>>
               ELSE IF next = "timeout"
                    THEN Return(Error("ResolutionTimeout")) /\ UNCHANGED elapsed
                    ELSE /\ elapsed' = elapsed + 1
                         /\ UNCHANGED <<pc, err>>

\* Builds start and go away in the cluster while the command sleeps.
ClusterChanges ==
    /\ pc = "waitPipeline"
    /\ cluster' \in Clusters(tektonEnabled, RunPipelines) \ {cluster}
    /\ UNCHANGED <<tektonEnabled, o, catalog, loads, pickedPipeline, name, build,
                   suffix, pc, err, elapsed, retryErr, WalkVars>>

(***************************************************************************)
(* The walk over stages and init containers                                *)
(***************************************************************************)
ResolveVars == <<tektonEnabled, o, pickedPipeline, name, build, suffix>>

Event(kind, s, c) == <<kind, s, c>>

\* The init containers the stages entered so far have, and the sizes the pod of
\* the stage being entered may have when `more` stages follow it.
RECURSIVE SumTo(_, _)
SumTo(st, k) == IF k = 0 THEN 0 ELSE st[k] + SumTo(st, k - 1)
Used == SumTo(stages, Len(stages))
PodSizes(more) == {0} \cup 1..(MaxUnits - Used - more)

\* len(pod.Spec.InitContainers) of the pod of a legacy build
LegacyPodSizes(pod) == IF pod.inits THEN 1..MaxUnits ELSE {0}

\* Entering the loop over the init containers of a pod with n of them, or
\* failing when it has none. No util.Retry is running any more.
EnterPod(s, n) ==
    /\ elapsed' = 0 /\ retryErr' = NoErr
    /\ IF NoInitContainers(n)
       THEN /\ Return(Error("NoInitContainers"))
            /\ UNCHANGED <<stages, i, live, snap, polled>>
       ELSE /\ stages' = Append(stages, n)
            /\ i' = 1
            /\ live' = NoPod
            /\ snap' = NoPod
            /\ polled' = FALSE
            /\ pc' = "visit"
            /\ UNCHANGED err

\* The type switch on the resolved build. The catalog and the cluster's list
\* of builds are not read after this point and are no longer tracked.
BeginWalk ==
    /\ pc = "resolved"
    /\ cluster' = {}
    /\ catalog' = EmptyCatalog
    /\ loads' = 0
    /\ UNCHANGED <<ResolveVars, prevFailed, events>>
    /\ IF tektonEnabled
       THEN \E ns \in 0..MaxUnits :
              /\ nStages' = ns
              /\ elapsed' = 0 /\ retryErr' = NoErr
              /\ UNCHANGED <<stages, i, live, snap, polled>>
              /\ IF ns = 0
                 THEN Return(NoErr) /\ UNCHANGED stageIdx
                 ELSE pc' = "stage" /\ stageIdx' = 1 /\ UNCHANGED err
       ELSE IF build.pod = Nil
            THEN /\ Return(Error("NoPod"))
                 /\ UNCHANGED <<elapsed, retryErr, nStages, stageIdx, stages, i, live,
                                snap, polled>>
            ELSE \E n \in LegacyPodSizes(build.pod) :
                   /\ nStages' = 1
                   /\ stageIdx' = 1
                   /\ EnterPod(1, n)

\* `for _, stage := range pr.GetOrderedTaskStages()`: the stage has its pod,
\* or the wait for it begins.
EnterStage ==
    /\ pc = "stage"
    /\ UNCHANGED <<ResolveVars, cluster, catalog, loads, nStages, prevFailed, stageIdx>>
    /\ \/ /\ \E n \in PodSizes(nStages - stageIdx) : EnterPod(stageIdx, n)
          /\ UNCHANGED events
       \/ /\ pc' = "waitPod"
          /\ elapsed' = 0 /\ retryErr' = NoErr
          /\ events' = Append(events, Event("podwait", stageIdx, 0))
          /\ UNCHANGED <<err, stages, i, live, snap, polled>>

\* StagePodFound without the test `stage.Pod == nil`.
StagePodFoundUnchecked(found) == found # "err"

\* The closure f of the stage wait returns nil: SetPodsForStageInfo did not
\* fail and stage.Pod is set.
StagePodFound(found) == found # "err" /\ found # "unset"

\* One attempt of util.Retry(o.WaitForPipelineDuration, f) for the stage's pod:
\* SetPodsForStageInfo fails, finds no pod, or sets stage.Pod. After the wait,
\* `pod.Spec.InitContainers` of a pod that is still nil is a nil dereference.
StagePodAttempt ==
    /\ pc = "waitPod"
    /\ UNCHANGED <<ResolveVars, cluster, catalog, loads, nStages, prevFailed, stageIdx,
                   events>>
    /\ \E found \in {"err", "unset", "set"} :
         LET next == Retry(StagePodFound(found), elapsed)
             failed == IF found = "err" THEN Error("QueryFailure") ELSE Error("NoPodYet")
         IN IF next = "ok"
            THEN IF found = "set"
                 THEN \E n \in PodSizes(nStages - stageIdx) : EnterPod(stageIdx, n)
                 ELSE /\ Return(Error("NilPod"))
                      /\ UNCHANGED <<stages, i, live, snap, polled, elapsed, retryErr>>
            ELSE IF next = "timeout"
                 THEN /\ Return(StageError("StagePodTimeout", stageIdx))
                      /\ retryErr' = failed
                      /\ UNCHANGED <<stages, i, live, snap, polled, elapsed>>
                 ELSE /\ elapsed' = elapsed + 1
                      /\ retryErr' = failed
                      /\ UNCHANGED <<pc, err, stages, i, live, snap, polled>>

CurN == stages[stageIdx]

\* StreamInvoked calling o.TailLogs twice.
StreamInvokedTwice(ev) ==
    /\ events' = Append(Append(ev, Event("stream", stageIdx, i)),
                        Event("stream", stageIdx, i))
    /\ pc' = "streaming"

\* o.getStageLog / o.getPodLog: o.TailLogs is invoked for the container.
StreamInvoked(ev) ==
    /\ events' = Append(ev, Event("stream", stageIdx, i))
    /\ pc' = "streaming"

\* One pass of `for i, ic := range initContainers` up to the first sleep: the
\* pod is read again, the previous container is checked, and
\* waitForInitContainerToStart returns at once or starts polling.
VisitUnit ==
    /\ pc = "visit"
    /\ UNCHANGED <<ResolveVars, cluster, catalog, loads, nStages, prevFailed, stageIdx,
                   stages, i, live, elapsed, retryErr>>
    /\ \E readOk \in BOOLEAN :
         IF ~readOk
         THEN /\ Return(Error("QueryFailure"))
              /\ UNCHANGED <<snap, polled, events>>
         ELSE LET pod == live
                  warned == IF FailureCheck(pod, CurN, i)
                            THEN Append(events, Event("warn", stageIdx, i - 1))
                            ELSE events
                  waiting == Append(warned, Event("wait", stageIdx, i))
              IN /\ polled' = FALSE
                 /\ UNCHANGED err
                 /\ IF ReturnsAtOnce(pod, CurN, i)
                    THEN snap' = pod /\ StreamInvoked(waiting)
                    ELSE events' = waiting /\ pc' = "polling" /\ UNCHANGED snap

\* `time.Sleep(time.Second)` in the loop of waitForInitContainerToStart
PollSleep ==
    /\ pc = "polling"
    /\ pc' = "reading"
    /\ UNCHANGED <<ResolveVars, cluster, catalog, loads, err, elapsed, retryErr, WalkVars>>

\* The rest of one pass of that loop: the pod is read, and the wait is over
\* when the read fails or the container has started.
PollRead ==
    /\ pc = "reading"
    /\ UNCHANGED <<ResolveVars, cluster, catalog, loads, nStages, prevFailed, stageIdx,
                   stages, i, live, elapsed, retryErr>>
    /\ polled' = TRUE
    /\ \E readOk \in BOOLEAN :
         IF ~readOk
         THEN /\ Return(Error("QueryFailure"))
              /\ UNCHANGED <<snap, events>>
         ELSE /\ UNCHANGED err
              /\ IF HasInitContainerStarted(live, CurN, i)
                 THEN snap' = live /\ StreamInvoked(events)
                 ELSE pc' = "polling" /\ UNCHANGED <<snap, events>>

\* The container's output has ended: it terminated, or the pod is over.
StreamEnded(pod, idx) ==
    \/ ContainerStatus(pod, idx).terminated
    \/ pod.phase \in {"Failed", "Succeeded"}

\* o.TailLogs returns: with an error, or nil once the stream has ended; then
\* the next container, the next stage, or the end of the command.
StreamReturns ==
    /\ pc = "streaming"
    /\ UNCHANGED <<ResolveVars, cluster, catalog, loads, nStages, stages, elapsed,
                   retryErr>>
    /\ \/ /\ Return(Error("StreamFailure"))
          /\ UNCHANGED <<stageIdx, prevFailed, i, live, snap, polled, events>>
       \/ /\ StreamEnded(live, i)
          /\ events' = Append(events, Event("ret", stageIdx, i))
          /\ snap' = NoPod
          /\ polled' = FALSE
          /\ IF i < CurN
             THEN /\ i' = i + 1
                  /\ pc' = "visit"
                  /\ UNCHANGED <<err, stageIdx, prevFailed, live>>
             ELSE IF stageIdx < nStages
                  THEN /\ stageIdx' = stageIdx + 1
                       /\ prevFailed' = (ContainerStatus(live, i).exitCode # 0)
                       /\ pc' = "stage"
                       /\ UNCHANGED <<err, i, live>>
                  ELSE /\ Return(NoErr)
                       /\ UNCHANGED <<stageIdx, prevFailed, i, live>>

(***************************************************************************)
(* The pod of the current stage, as the cluster runs it                    *)
(***************************************************************************)
Walking == pc \in {"visit", "polling", "reading", "streaming"}

PodUnchanged ==
    UNCHANGED <<ResolveVars, cluster, catalog, loads, pc, err, elapsed, retryErr, nStages,
                prevFailed, stageIdx, stages, i, snap, polled, events>>

KubeletReports ==
    /\ Walking /\ ~live.reported
    /\ live' = [live EXCEPT !.reported = TRUE]
    /\ PodUnchanged

ContainerStarts ==
    /\ Walking /\ live.reported /\ live.phase = "Pending"
    /\ live.cur <= CurN /\ live.cstate = "waiting"
    /\ live' = [live EXCEPT !.cstate = "running"]
    /\ PodUnchanged

ContainerExits ==
    /\ Walking /\ live.cstate = "running"
    /\ \/ live' = [live EXCEPT !.cstate = "failed"]
       \/ live' = [live EXCEPT !.cur = live.cur + 1, !.cstate = "waiting",
                               !.phase = IF live.cur = CurN THEN "Running" ELSE "Pending"]
    /\ PodUnchanged

\* The pod fails (a container that was running is killed: it terminates with
\* a non-zero exit code), or succeeds once its containers are done.
PodEnds ==
    /\ Walking
    /\ \/ /\ live.phase \in {"Pending", "Running"}
          /\ live' = [live EXCEPT !.phase = "Failed",
                                  !.cstate = IF @ = "running" THEN "failed" ELSE @]
       \/ live.phase = "Running" /\ live' = [live EXCEPT !.phase = "Succeeded"]
    /\ PodUnchanged

Next ==
    \/ Begin \/ WaitAttempt \/ ClusterChanges
    \/ BeginWalk \/ EnterStage \/ StagePodAttempt
    \/ VisitUnit \/ PollSleep \/ PollRead \/ StreamReturns
    \/ KubeletReports \/ ContainerStarts \/ ContainerExits \/ PodEnds

Spec == Init /\ [][Next]_vars

\* The command is a running process: whenever it can take a step, it takes one.
CommandStep ==
    \/ Begin \/ WaitAttempt \/ BeginWalk \/ EnterStage \/ StagePodAttempt
    \/ VisitUnit \/ PollSleep \/ PollRead \/ StreamReturns

FairSpec == Spec /\ WF_vars(CommandStep)

(***************************************************************************)
(* Reading the log of what the command did                                 *)
(***************************************************************************)
IsStream(e) == e[1] = "stream"
IsStreamOrRet(e) == e[1] \in {"stream", "ret"}
Unit(e) == <<e[2], e[3]>>

\* The units whose log stream was invoked, in order of invocation.
RECURSIVE UnitsIn(_)
UnitsIn(ev) == IF ev = <<>> THEN <<>> ELSE <<Unit(Head(ev))>> \o UnitsIn(Tail(ev))
Streamed == UnitsIn(SelectSeq(events, IsStream))

\* The units of stages with the given numbers of init containers: each stage's
\* containers in declaration order, the stages in stage order.
RECURSIVE StageUnits(_, _)
StageUnits(s, n) == IF n = 0 THEN <<>> ELSE Append(StageUnits(s, n - 1), <<s, n>>)
RECURSIVE UnitsUpTo(_, _)
UnitsUpTo(st, s) == IF s = 0 THEN <<>> ELSE UnitsUpTo(st, s - 1) \o StageUnits(s, st[s])
Units(st) == UnitsUpTo(st, Len(st))

IsPrefix(a, b) == Len(a) <= Len(b) /\ a = SubSeq(b, 1, Len(a))

Has(e) == \E k \in 1..Len(events) : events[k] = e
Count(e) == Cardinality({k \in 1..Len(events) : events[k] = e})

Completed == pc = "done" /\ err = NoErr

(***************************************************************************)
(* C1: when every stage gets a pod with init containers and every read and *)
(* stream succeeds (the command returns nil), the log stream was invoked   *)
(* exactly once per unit, in the order of the stages and, within a stage,  *)
(* of its init containers; at any time the invocations so far are a prefix *)
(* of that order, and an invocation begins only after the one before it    *)
(* has returned.                                                           *)
(***************************************************************************)
Alternates ==
    LET calls == SelectSeq(events, IsStreamOrRet)
    IN /\ \A k \in 1..Len(calls) :
            /\ calls[k][1] = (IF k % 2 = 1 THEN "stream" ELSE "ret")
            /\ k % 2 = 0 => Unit(calls[k]) = Unit(calls[k - 1])
       /\ (Len(calls) % 2 = 1) <=> (pc = "streaming" \/ (pc = "done" /\ err.kind = "StreamFailure"))

C1_StreamsOncePerUnitInOrder ==
    /\ IsPrefix(Streamed, Units(stages))
    /\ Alternates
    /\ Completed => /\ Streamed = Units(stages)
                    /\ Len(stages) = nStages

C1_Witness ==
    /\ Completed /\ tektonEnabled
    /\ stages = <<2, 1>>
    /\ Streamed = <<<<1, 1>>, <<1, 2>>, <<2, 1>>>>

(***************************************************************************)
(* C2: in a pod with units u0, u1, u2 where u0 terminated with a non-zero  *)
(* exit code, the warning for u0 is logged exactly once, right before the  *)
(* wait for u1 (so before its stream), and it does not end the walk: a     *)
(* command that returns nil has streamed every unit of the pod, u2         *)
(* included. A warning is logged only for a container that failed.         *)
(***************************************************************************)
FailedIn(pod, c) ==
    ContainerStatus(pod, c).terminated /\ ContainerStatus(pod, c).exitCode # 0

ExactMatches(nm) ==
    {d \in Loaded(tektonEnabled, o.BuildFilter, cluster) : DisplayName(d) = nm}
PipelineMatches(nm) ==
    {d \in Loaded(tektonEnabled, o.BuildFilter, cluster) : d.pipeline = nm}
Matches(nm) == ExactMatches(nm) \cup PipelineMatches(nm)

(***************************************************************************)
(* C3: a name given on the command line that the cluster's catalog holds   *)
(* in its exact index is resolved to that descriptor, with or without      *)
(* --wait; the command fails with NotFound only when the name matches      *)
(* neither index of the catalog of the cluster.                            *)
(***************************************************************************)
C3_ListedNameIsResolved ==
    (pc = "done" /\ err.kind = "NotFound") => Matches(name) = {}

(***************************************************************************)
(* C4: with --wait and a name given, an attempt of the wait that loads a   *)
(* catalog holding the name resolves it to a matching descriptor of the    *)
(* cluster; the wait fails only with the timeout error, once the time is   *)
(* up, after an attempt that found no match, and nothing was streamed.     *)
(***************************************************************************)
C4_WaitResolvesOrTimesOut ==
    [][(pc = "waitPipeline" /\ cluster' = cluster) =>
          /\ pc' \in {"waitPipeline", "resolved", "done"}
          /\ pc' = "resolved" => build' \in Matches(name)
          /\ (catalog'.names # <<>> /\ Matches(name) # {}) => pc' = "resolved"
          /\ pc' = "done" => /\ err' = Error("ResolutionTimeout")
                             /\ elapsed >= RetryTicks
                             /\ build' = Nil
                             /\ events' = <<>>
          /\ pc' = "waitPipeline" => elapsed' = elapsed + 1 /\ elapsed < RetryTicks
      ]_vars

C4_Witness ==
    /\ pc = "resolved" /\ o.Wait /\ ~pickedPipeline
    /\ elapsed > 0
    /\ build \in Matches(name)

(***************************************************************************)
(* C7: waitForInitContainerToStart returns when the pod has failed, also   *)
(* when the pod fails after the polling has begun and the container never  *)
(* starts: a command polling a pod of phase Failed leaves the polling.     *)
(***************************************************************************)
Polling == pc \in {"polling", "reading"}

C7_WaiterReturnsOnFailedPod ==
    (Polling /\ live.phase = "Failed") ~> ~Polling

(***************************************************************************)
(* C8: waitForInitContainerToStart called with a pod whose phase is Failed *)
(* or whose container has already started returns that pod, without error  *)
(* and without reading the pod from the cluster.                           *)
(***************************************************************************)
StartedIn(pod, c) == pod.reported /\ ContainerStatus(pod, c).started

C8_ReturnsAtOnceWithoutPolling ==
    [][(pc = "visit" /\ pc' \in {"polling", "streaming"}
            /\ (live.phase = "Failed" \/ StartedIn(live, i)))
          => /\ pc' = "streaming"
             /\ snap' = live
             /\ polled' = FALSE
             /\ err' = NoErr
             /\ events' = events
                    \o (IF Len(events') = Len(events) + 3
                        THEN <<Event("warn", stageIdx, i - 1)>> ELSE <<>>)
                    \o <<Event("wait", stageIdx, i), Event("stream", stageIdx, i)>>
      ]_vars

C8_Witness ==
    /\ pc = "streaming" /\ ~polled
    /\ snap.phase = "Failed" /\ ~StartedIn(snap, i)
    /\ events[Len(events)] = Event("stream", stageIdx, i)

(***************************************************************************)
(* C9 as stated: a command that ends in EmptyCatalog, NotFound, a timeout  *)
(* or NoInitContainers has invoked the log stream for no unit at all.      *)
(***************************************************************************)
TerminalFailures ==
    {"EmptyCatalog", "NotFound", "ResolutionTimeout", "StagePodTimeout", "NoInitContainers"}

C9_NoStreamBeforeTerminalFailure ==
    (pc = "done" /\ err.kind \in TerminalFailures) => Streamed = <<>>

(***************************************************************************)
(* C9 amended: a command that ends in EmptyCatalog, NotFound or the        *)
(* resolution timeout has streamed nothing; one that ends in the stage-pod *)
(* timeout or NoInitContainers for a stage has streamed no unit of that    *)
(* stage or of a later one, and every unit of the stages before it. The    *)
(* log stream is only ever invoked for an init container the pod has.      *)
(***************************************************************************)
C9_NoStreamFromFailingStageOn ==
    /\ (pc = "done" /\ err.kind \in {"EmptyCatalog", "NotFound", "ResolutionTimeout"})
          => events = <<>>
    /\ (pc = "done" /\ err.kind \in {"StagePodTimeout", "NoInitContainers"})
          => /\ Len(stages) = stageIdx - 1
             /\ Streamed = Units(stages)
    /\ \A k \in 1..Len(Streamed) :
          /\ Streamed[k][1] \in 1..Len(stages)
          /\ Streamed[k][2] \in 1..stages[Streamed[k][1]]

C9_Witness ==
    /\ pc = "done" /\ err.kind = "NoInitContainers"
    /\ stageIdx = 2
    /\ Streamed = <<<<1, 1>>, <<1, 2>>>>

(***************************************************************************)
(* C10: a stage reached without a pod is waited for, one attempt after the *)
(* other. When the pod is set in time, the stage's init containers are     *)
(* streamed in declaration order; when the time is up, the command fails   *)
(* with the timeout error naming that stage, having streamed no unit of    *)
(* that stage or a later one.                                              *)
(***************************************************************************)
RECURSIVE StreamedOf(_, _)
StreamedOf(units, s) ==
    IF units = <<>> THEN <<>>
    ELSE IF Head(units)[1] = s
         THEN <<Head(units)[2]>> \o StreamedOf(Tail(units), s)
         ELSE StreamedOf(Tail(units), s)

C10_StagePodWait ==
    /\ pc = "waitPod" =>
          /\ Has(Event("podwait", stageIdx, 0))
          /\ elapsed <= RetryTicks
          /\ Len(stages) = stageIdx - 1
    /\ pc = "done" =>
          /\ err.kind # "NilPod"
          /\ err.kind = "StagePodTimeout" =>
                /\ err = StageError("StagePodTimeout", stageIdx)
                /\ Has(Event("podwait", stageIdx, 0))
                /\ elapsed >= RetryTicks
                /\ \A k \in 1..Len(Streamed) : Streamed[k][1] < stageIdx
    /\ \A s \in 1..Len(stages) :
          Has(Event("podwait", s, 0)) =>
             LET done == StreamedOf(Streamed, s)
             IN /\ \A k \in 1..Len(done) : done[k] = k
                /\ Len(done) <= stages[s]
                /\ (Completed \/ s < stageIdx) => Len(done) = stages[s]

C10_Witness ==
    /\ Completed
    /\ stages = <<1, 2>>
    /\ Has(Event("podwait", 2, 0))
    /\ StreamedOf(Streamed, 2) = <<1, 2>>

(***************************************************************************)
(* C11: --wait governs both bounded waits. The wait for the pipeline is    *)
(* entered only with --wait; without --wait the wait for a stage's pod     *)
(* makes one attempt and fails at once: no second attempt, no sleep in     *)
(* between.                                                                *)
(***************************************************************************)
C11_WaitFlagGovernsBothWaits ==
    /\ pc = "waitPipeline" => o.Wait
    /\ (pc = "waitPod" /\ ~o.Wait) => elapsed = 0

(***************************************************************************)
(* C12: when the cluster's objects were listed, a descriptor that cannot   *)
(* be constructed is dropped alone: if some object's descriptor was        *)
(* constructed and matches the filter, the load succeeds and its names,    *)
(* exact index and latest-per-pipeline index cover every such descriptor.  *)
(***************************************************************************)
Constructed(t, objs) ==
    { Info(p) : p \in {q \in objs : q.state = (IF t THEN "ok" ELSE "pod")} }

Listed == pc = "loaded" /\ err # Error("QueryFailure")

C12_ItemFailureDropsOnlyItem ==
    Listed =>
        LET kept == {d \in Constructed(tektonEnabled, cluster) :
                        BuildMatches(o.BuildFilter, d)}
        IN kept # {} =>
              /\ err = NoErr
              /\ \A d \in kept :
                    /\ \E k \in 1..Len(catalog.names) : catalog.names[k] = DisplayName(d)
                    /\ MapGet(catalog.buildMap, DisplayName(d)) = d
                    /\ d.pipeline \in MapKeys(catalog.pipelineMap)

(***************************************************************************)
(* C13: with build pods and with pipeline runs alike, every descriptor a   *)
(* successful load puts in names, in the exact index or in the             *)
(* latest-per-pipeline index satisfies the filter, and a load that read    *)
(* the cluster fails with EmptyCatalog exactly when no descriptor made of  *)
(* the cluster's objects passes the filter.                                *)
(***************************************************************************)
C13_LoadedSatisfyFilter ==
    /\ LoadSucceeded =>
          /\ \A e \in catalog.buildMap \cup catalog.pipelineMap :
                BuildMatches(o.BuildFilter, e.v)
          /\ \A k \in 1..Len(catalog.names) :
                \E d \in Constructed(tektonEnabled, cluster) :
                    /\ DisplayName(d) = catalog.names[k]
                    /\ BuildMatches(o.BuildFilter, d)
    /\ (pc = "loaded" /\ err.kind # "QueryFailure") =>
          (err.kind = "EmptyCatalog" <=>
              ~ \E d \in Constructed(tektonEnabled, cluster) :
                    BuildMatches(o.BuildFilter, d))

(***************************************************************************)
(* C14: with no name given and interaction allowed, the catalog is loaded  *)
(* once, the name is picked among the names of that catalog (defaultName,  *)
(* when there is one, is among them) and resolved through the exact index  *)
(* without the wait being entered, with --wait too; in batch mode the      *)
(* command fails with the missing-argument error and has loaded nothing.   *)
(***************************************************************************)
Offered(nm) == \E k \in 1..Len(catalog.names) : catalog.names[k] = nm

C14_NoIdentifier ==
    Len(o.Args) = 0 =>
        /\ pc # "waitPipeline"
        /\ loads <= 1
        /\ o.BatchMode =>
              /\ loads = 0 /\ catalog = EmptyCatalog /\ build = Nil
              /\ pc # "start" => (pc = "done" /\ err = Error("MissingArgument"))
        /\ (~o.BatchMode /\ pc = "resolved") =>
              /\ pickedPipeline /\ loads = 1 /\ elapsed = 0
              /\ catalog = Load(tektonEnabled, o.BuildFilter, cluster, TRUE).cat
              /\ Offered(name)
              /\ catalog.defaultName # "" => Offered(catalog.defaultName)
              /\ build = MapGet(catalog.buildMap, name) /\ build # Nil
        /\ (~o.BatchMode /\ pc = "done") =>
              err.kind \notin {"MissingArgument", "ResolutionTimeout", "NotFound"}

C14_Witness ==
    /\ Len(o.Args) = 0 /\ ~o.BatchMode /\ o.Wait
    /\ pc = "resolved" /\ loads = 1
    /\ Len(catalog.names) = 2
    /\ name = catalog.defaultName

C16_FailureCheckedAcrossStages ==
    (stageIdx > 1 /\ prevFailed /\ Has(Event("wait", stageIdx, 1))) =>
        \E k \in 2..Len(events) :
            /\ events[k] = Event("wait", stageIdx, 1)
            /\ events[k - 1] = Event("warn", stageIdx - 1, stages[stageIdx - 1])

(***************************************************************************)
(* C17: inside the wait for the pipeline and inside the wait for a stage's *)
(* pod, an attempt whose read fails or whose catalog is empty is a failed  *)
(* attempt like any other: the wait goes on after one more sleep, it ends  *)
(* in an error only once the time is up, and an attempt that then finds    *)
(* the name resolves it, whatever the attempt before returned.             *)
(***************************************************************************)
ReadFailed(e) == e.kind \in {"QueryFailure", "EmptyCatalog"}
InBoundedWait == pc \in {"waitPipeline", "waitPod"}

C17_FailedReadIsFailedAttempt ==
    [][(InBoundedWait /\ cluster' = cluster) =>
          /\ (pc' = "done" /\ err'.kind # "NoInitContainers") =>
                /\ err'.kind = (IF pc = "waitPod" THEN "StagePodTimeout"
                                ELSE "ResolutionTimeout")
                /\ elapsed >= RetryTicks
                /\ retryErr' # NoErr
          /\ pc' = pc =>
                /\ retryErr' # NoErr
                /\ elapsed < RetryTicks /\ elapsed' = elapsed + 1
          /\ (pc = "waitPipeline" /\ pc' = "resolved") =>
                /\ build' \in Matches(name)
                /\ retryErr' = retryErr
          /\ (pc = "waitPipeline" /\ ReadFailed(retryErr)
                /\ catalog'.names # <<>> /\ Matches(name) # {}) =>
                pc' = "resolved"
      ]_vars

C17_Witness ==
    /\ pc = "resolved" /\ o.Wait /\ Len(o.Args) = 1
    /\ elapsed = RetryTicks
    /\ retryErr = Error("QueryFailure")
    /\ build \in Matches(name)

(***************************************************************************)
(* C18: the exact index is looked up first. A resolved name that the exact *)
(* index holds is resolved to its entry there and logged without suffix;   *)
(* otherwise it is resolved to the entry of the latest-per-pipeline index  *)
(* and logged with the suffix " #" + build number of that entry. This      *)
(* holds for the first lookup and for the lookups of the wait, and the     *)
(* suffix stays as it is during the walk.                                  *)
(***************************************************************************)
LoggedName == name \o suffix

C18_SuffixIffLatestIndex ==
    /\ pc = "resolved" =>
          IF name \in MapKeys(catalog.buildMap)
          THEN /\ build = MapGet(catalog.buildMap, name)
               /\ suffix = ""
               /\ LoggedName = name
          ELSE /\ build = MapGet(catalog.pipelineMap, name)
               /\ build # Nil
               /\ suffix = " #" \o ToString(build.build)
               /\ LoggedName = build.pipeline \o " #" \o ToString(build.build)
    /\ build = Nil => suffix = ""
    /\ (build # Nil /\ pc # "resolved") =>
          suffix = (IF name = DisplayName(build) THEN "" ELSE BuildSuffix(build))

C18_Witness ==
    /\ pc = "resolved" /\ o.Wait /\ elapsed > 0
    /\ name = "jx/app/master"
    /\ Cardinality(catalog.buildMap) = 2
    /\ LoggedName = "jx/app/master #1"

(***************************************************************************)
(* C19: the log stream of a unit is invoked only by a step that comes      *)
(* after the pod was read again for that unit and in which                 *)
(* waitForInitContainerToStart returns without error; the pod it returns   *)
(* is one in which the unit's container has started, or the pod read at    *)
(* the beginning of the visit when its phase was Failed, no poll having    *)
(* been made. A read of the pod that fails, at the visit or in a poll,     *)
(* ends the command with that error and streams nothing more.              *)
(***************************************************************************)
LastEvents(ev, n) == IF Len(ev) < n THEN <<>> ELSE SubSeq(ev, Len(ev) - n + 1, Len(ev))

C19_StreamOnlyAfterReadAndStart ==
    [][/\ Streamed' # Streamed =>
            /\ pc \in {"visit", "reading"} /\ pc' = "streaming"
            /\ err' = NoErr
            /\ LastEvents(events', 2) =
                  <<Event("wait", stageIdx, i), Event("stream", stageIdx, i)>>
            /\ Len(Streamed') = Len(Streamed) + 1
            /\ snap' = live
            /\ \/ StartedIn(snap', i)
               \/ pc = "visit" /\ snap'.phase = "Failed" /\ ~polled'
       /\ (pc \in {"visit", "reading"} /\ pc' = "done") =>
            /\ err' = Error("QueryFailure")
            /\ events' = events
       /\ pc = "done" => Streamed' = Streamed
      ]_vars

C19_Witness ==
    /\ pc = "done" /\ err = Error("QueryFailure")
    /\ polled
    /\ stageIdx = 2 /\ i = 1
    /\ Streamed = <<<<1, 1>>, <<1, 2>>>>
    /\ LastEvents(events, 1) = <<Event("wait", 2, 1)>>

(***************************************************************************)
(* C20: with legacy build pods, every descriptor of a loaded catalog, and  *)
(* so every resolved descriptor, has a pod with at least one init          *)
(* container; the walk of a resolved build never fails with "No Pod found" *)
(* or "No InitContainers" and enters the loop over the init containers.    *)
(***************************************************************************)
HasInits(b) == b.pod # Nil /\ b.pod.inits

C20_LegacyBuildHasInitContainers ==
    ~tektonEnabled =>
        /\ \A e \in catalog.buildMap \cup catalog.pipelineMap : HasInits(e.v)
        /\ build # Nil => HasInits(build)
        /\ pc = "done" => err.kind \notin {"NoPod", "NoInitContainers"}
        /\ (build # Nil /\ pc \notin {"resolved", "waitPipeline"}) =>
              /\ Len(stages) = 1
              /\ stages[1] >= 1

C20_Witness ==
    /\ ~tektonEnabled /\ pc = "resolved"
    /\ \E p \in cluster : p.state = "noinit"
    /\ \E p \in cluster : p.state = "pod" /\ Info(p) = build
    /\ Len(catalog.names) = 1

====
